---- MODULE Spec2Model ----
(***************************************************************************)
(* Thumbr: a video file is turned into one preview image (grid of frames,  *)
(* metadata header, watermark).  The model follows src/main.py and         *)
(* src/src/thumbr.py: main parses the grid text, constructs a Thumbr and   *)
(* calls generate_thumbnail, which reads the metadata, samples the frames, *)
(* computes the layout, renders and pastes the pieces and saves the image. *)
(***************************************************************************)
EXTENDS Integers, Sequences, FiniteSets, TLC

(***************************************************************************)
(* Natural numbers as bit sequences, most significant bit first, without   *)
(* leading zeros (<<>> is 0).  Python floats are IEEE-754 doubles; their   *)
(* 53-bit significands do not fit the model checker's integers, so the     *)
(* float arithmetic of the code is carried out on bit sequences.           *)
(***************************************************************************)
RECURSIVE Bits(_)
Bits(n) ==
    IF n = 0 THEN <<>> ELSE Append(Bits(n \div 2), n % 2)

RECURSIVE Val(_)
Val(b) ==
    IF b = <<>> THEN 0 ELSE 2 * Val(SubSeq(b, 1, Len(b) - 1)) + b[Len(b)]

\* b without its leading zeros
Strip(b) ==
    IF \A i \in 1..Len(b) : b[i] = 0 THEN <<>>
    ELSE SubSeq(b, CHOOSE i \in 1..Len(b) : b[i] = 1 /\ \A j \in 1..(i - 1) : b[j] = 0,
                Len(b))

Zeros(k) ==
    [i \in 1..k |-> 0]

\* a >= b, for stripped bit sequences
GE(a, b) ==
    IF Len(a) # Len(b) THEN Len(a) > Len(b)
    ELSE LET d == {i \in 1..Len(a) : a[i] # b[i]}
         IN  d = {} \/ a[CHOOSE i \in d : \A j \in d : i <= j] = 1

\* the bits lo..hi of a - b and the borrow out of them, given the borrow into
\* them; the borrow runs from the last bit to the first (the range is split in
\* halves to keep the evaluation shallow)
RECURSIVE SubRange(_, _, _, _, _)
SubRange(a, b, lo, hi, borrow) ==
    IF lo = hi
    THEN LET t == a[lo] - b[lo] - borrow
         IN  [s |-> <<t % 2>>, c |-> IF t < 0 THEN 1 ELSE 0]
    ELSE LET mid   == (lo + hi) \div 2
             right == SubRange(a, b, mid + 1, hi, borrow)
         IN  IF right.c = 0
             THEN LET left == SubRange(a, b, lo, mid, 0)
                  IN  [s |-> left.s \o right.s, c |-> left.c]
             ELSE LET left == SubRange(a, b, lo, mid, 1)
                  IN  [s |-> left.s \o right.s, c |-> left.c]

\* a - b for a >= b
Sub(a, b) ==
    IF a = <<>> THEN <<>>
    ELSE Strip(SubRange(a, Zeros(Len(a) - Len(b)) \o b, 1, Len(a), 0).s)

\* the bits lo..hi of b * k and the carry out of them, for a small natural k
RECURSIVE MulRange(_, _, _, _, _)
MulRange(b, k, lo, hi, carry) ==
    IF lo = hi
    THEN LET t == b[lo] * k + carry
         IN  [s |-> <<t % 2>>, c |-> t \div 2]
    ELSE LET mid   == (lo + hi) \div 2
             right == MulRange(b, k, mid + 1, hi, carry)
         IN  IF right.c >= 0
             THEN LET left == MulRange(b, k, lo, mid, right.c)
                  IN  [s |-> left.s \o right.s, c |-> left.c]
             ELSE right

MulSmall(b, k) ==
    IF b = <<>> THEN <<>>
    ELSE LET r == MulRange(b, k, 1, Len(b), 0)
         IN  Strip(Bits(r.c) \o r.s)

\* long division of the bit sequence num by den > 0, one bit of num at a time:
\* st is the quotient and the remainder so far
DivStep(den, st, bit) ==
    LET r2 == IF st.r = <<>> /\ bit = 0 THEN <<>> ELSE Append(st.r, bit)
    IN  IF GE(r2, den)
        THEN [q |-> Append(st.q, 1), r |-> Sub(r2, den)]
        ELSE [q |-> Append(st.q, 0), r |-> r2]

\* the bits lo..hi of num, in order
RECURSIVE DivRange(_, _, _, _, _)
DivRange(num, den, st, lo, hi) ==
    IF lo > hi THEN st
    ELSE IF lo = hi THEN DivStep(den, st, num[lo])
    ELSE LET mid  == (lo + hi) \div 2
             left == DivRange(num, den, st, lo, mid)
         IN  IF Len(left.q) >= 0 THEN DivRange(num, den, left, mid + 1, hi) ELSE st

DivBig(num, den) ==
    LET d == DivRange(num, den, [q |-> <<>>, r |-> <<>>], 1, Len(num))
    IN  [q |-> Strip(d.q), r |-> d.r]

\* b + 1
Incr(b) ==
    IF \A i \in 1..Len(b) : b[i] = 1 THEN <<1>> \o Zeros(Len(b))
    ELSE LET p == CHOOSE i \in 1..Len(b) : b[i] = 0 /\ \A j \in (i + 1)..Len(b) : b[j] = 1
         IN  SubSeq(b, 1, p - 1) \o <<1>> \o Zeros(Len(b) - p)

(***************************************************************************)
(* A non-negative double is [m, e] with value Val(m) * 2^e; a rounded      *)
(* result has a significand of exactly Precision bits.  Exponents stay far *)
(* from the subnormal and overflow ranges for every value of the model.    *)
(***************************************************************************)
Precision == 53

FZero == [m |-> <<>>, e |-> 0]

\* the quotient bits q (at least Precision + 2 of them) of a division, of
\* weight 2^e, rounded to Precision bits, ties to even; inexact says that the
\* division left a remainder
RoundBits(q, inexact, e) ==
    LET mant   == SubSeq(q, 1, Precision)
        sticky == inexact \/ \E j \in (Precision + 2)..Len(q) : q[j] = 1
        up     == q[Precision + 1] = 1 /\ (sticky \/ q[Precision] = 1)
    IN  IF up /\ \A j \in 1..Precision : q[j] = 1
        THEN [m |-> <<1>> \o Zeros(Precision - 1), e |-> e + Len(q) - Precision + 1]
        ELSE [m |-> IF up THEN Incr(mant) ELSE mant, e |-> e + Len(q) - Precision]

RoundDivision(d, e) ==
    RoundBits(d.q, d.r # <<>>, e)

\* the zero bits appended to num so that num / den has Precision + 2 bits
Widen(num, den) ==
    IF Precision + 2 + Len(den) > Len(num) THEN Precision + 2 + Len(den) - Len(num) ELSE 0

\* the double nearest to (num / den) * 2^e, ties to even: the result of one
\* correctly rounded float operation
RoundQ(num, den, e) ==
    IF num = <<>> THEN FZero
    ELSE RoundDivision(DivBig(num \o Zeros(Widen(num, den)), den), e - Widen(num, den))

\* int(x): the integer part of a non-negative double
IntF(x) ==
    IF x.e >= 0 THEN Val(x.m \o Zeros(x.e))
    ELSE IF Len(x.m) + x.e <= 0 THEN 0
    ELSE Val(SubSeq(x.m, 1, Len(x.m) + x.e))

\* float(a) / float(b) for naturals a, b with b > 0
FDivNat(a, b) ==
    RoundQ(Bits(a), Bits(b), 0)

\* x / n for a double x and a natural n > 0
FDivByNat(x, n) ==
    RoundQ(x.m, Bits(n), x.e)

\* n * x for a natural n and a double x
FMulNat(n, x) ==
    RoundQ(MulSmall(x.m, n), <<1>>, x.e)

\* float(a) / x for a natural a and a double x > 0
FNatDiv(a, x) ==
    RoundQ(Bits(a), x.m, 0 - x.e)

\* x // n for a double x >= 0 and a natural n > 0 (Python floor division of
\* floats: exact for the magnitudes of the model)
FFloorDiv(x, n) ==
    IntF(x) \div n

\* x % n for a double x >= 0 and a natural n > 0: fmod is exact, the
\* fraction bits of x are kept
FMod(x, n) ==
    IF x.e >= 0 THEN [m |-> Bits(IntF(x) % n), e |-> 0]
    ELSE IF Len(x.m) + x.e <= 0 THEN x
    ELSE [m |-> Strip(Bits(IntF(x) % n) \o SubSeq(x.m, Len(x.m) + x.e + 1, Len(x.m))),
          e |-> x.e]

\* Python's a // b on integers, b # 0: the floor of the quotient
PyFloorDiv(a, b) ==
    IF b > 0 THEN a \div b ELSE (0 - a) \div (0 - b)

Abs(n) == IF n >= 0 THEN n ELSE 0 - n
Sign(n) == IF n >= 0 THEN 1 ELSE 0 - 1

\* int(n / x) for an integer n and a double x > 0: truncation toward zero
TruncDiv(n, x) ==
    Sign(n) * IntF(FNatDiv(Abs(n), x))

\* int(n * x) for an integer n and a double x >= 0: truncation toward zero
TruncMul(n, x) ==
    Sign(n) * IntF(FMulNat(Abs(n), x))

(***************************************************************************)
(* Text: a string is a sequence of one-character strings.                  *)
(***************************************************************************)
Digits == <<"0", "1", "2", "3", "4", "5", "6", "7", "8", "9">>

IsDigit(c) ==
    \E i \in 1..Len(Digits) : Digits[i] = c

DigitVal(c) ==
    (CHOOSE i \in 1..Len(Digits) : Digits[i] = c) - 1

\* the decimal numeral of an integer, as str(n) writes it
RECURSIVE Numeral(_)
Numeral(n) ==
    IF n < 0 THEN <<"-">> \o Numeral(0 - n)
    ELSE IF n < 10 THEN <<Digits[n + 1]>>
    ELSE Append(Numeral(n \div 10), Digits[(n % 10) + 1])

\* f"{n:02d}" for n >= 0
Pad2(n) ==
    IF n < 10 THEN <<"0">> \o Numeral(n) ELSE Numeral(n)

\* the number a sequence of digits denotes
RECURSIVE DecVal(_)
DecVal(ds) ==
    IF ds = <<>> THEN 0
    ELSE 10 * DecVal(SubSeq(ds, 1, Len(ds) - 1)) + DigitVal(ds[Len(ds)])

\* s.split("x"): the pieces between the separators, k separators give k + 1 pieces
SplitX(s) ==
    LET xs     == {i \in 1..Len(s) : s[i] = "x"}
        cut(k) == IF k = 0 THEN 0
                  ELSE IF k > Cardinality(xs) THEN Len(s) + 1
                  ELSE CHOOSE p \in xs : Cardinality({q \in xs : q < p}) = k - 1
    IN  [k \in 1..(Cardinality(xs) + 1) |-> SubSeq(s, cut(k - 1) + 1, cut(k) - 1)]

\* s.strip(): without the leading and trailing whitespace
StripSpace(s) ==
    LET ns == {i \in 1..Len(s) : s[i] # " "}
    IN  IF ns = {} THEN <<>>
        ELSE SubSeq(s, CHOOSE i \in ns : \A j \in ns : i <= j,
                       CHOOSE i \in ns : \A j \in ns : j <= i)

\* int(s) of Python: whitespace around, an optional sign, then digits that
\* single underscores may separate; anything else is a ValueError (ok = FALSE)
PyInt(s) ==
    LET t    == StripSpace(s)
        sgn  == t # <<>> /\ t[1] \in {"+", "-"}
        body == IF sgn THEN Tail(t) ELSE t
        good == /\ body # <<>>
                /\ \A i \in 1..Len(body) : IsDigit(body[i]) \/ body[i] = "_"
                /\ IsDigit(body[1]) /\ IsDigit(body[Len(body)])
                /\ \A i \in 1..(Len(body) - 1) : ~(body[i] = "_" /\ body[i + 1] = "_")
        ds   == SelectSeq(body, IsDigit)
        v    == DecVal(ds)
    IN  IF ~good THEN [ok |-> FALSE, val |-> 0]
        ELSE [ok |-> TRUE, val |-> IF sgn /\ t[1] = "-" THEN 0 - v ELSE v]

\* faulty variant of ParseGrid: the first two pieces are taken and further
\* pieces are ignored
ParseGridFirstTwo(text) ==
    LET pieces == SplitX(text)
        ints   == [k \in 1..Len(pieces) |-> PyInt(pieces[k])]
    IN  IF Len(pieces) >= 2 /\ ints[1].ok /\ ints[2].ok
        THEN [ok |-> TRUE, rows |-> ints[1].val, cols |-> ints[2].val]
        ELSE [ok |-> FALSE, rows |-> 0, cols |-> 0]

\* grid_rows, grid_cols = map(int, args.grid.split("x")): a ValueError when a
\* piece is no integer or when there are not exactly two pieces
ParseGrid(text) ==
    LET pieces == SplitX(text)
        ints   == [k \in 1..Len(pieces) |-> PyInt(pieces[k])]
    IN  IF Len(pieces) = 2 /\ ints[1].ok /\ ints[2].ok
        THEN [ok |-> TRUE, rows |-> ints[1].val, cols |-> ints[2].val]
        ELSE [ok |-> FALSE, rows |-> 0, cols |-> 0]

(***************************************************************************)
(* Inputs: the grid texts given to --grid and the video files.             *)
(***************************************************************************)
MaxRows == 4
MaxCols == 5

\* texts that are no ROWSxCOLS of positive numbers
OddGridTexts ==
    { <<"0", "x", "3">>, <<"-", "2", "x", "2">>, <<"-", "1", "x", "1">>,
      <<"-", "2", "x", "-", "2">>, <<"3", "x", "a">>, <<"3">>,
      <<"3", "x", "3", "x", "3">>, <<>>, <<"x">>, <<"3", "x">>, <<"3", "X", "3">>,
      <<" ", "2", "x", "+", "2">>, <<"1", "_", "_", "0", "x", "1">>, <<"2", "x", "2", "_">> }

GridTexts ==
    {Numeral(r) \o <<"x">> \o Numeral(c) : r \in 1..MaxRows, c \in 1..MaxCols}
        \cup OddGridTexts

\* what the decoder reports of a file and which of its frames it can decode:
\* damage "none" (every read succeeds), "all" (none does), "head" (the reads in
\* the first half of the file fail), "tail" (those in the second half fail)
Sources ==
    { [frame_count |-> 300, fps |-> 30, width |-> 1920, height |-> 1080],
      [frame_count |-> 183, fps |-> 1, width |-> 640, height |-> 480],
      [frame_count |-> 7, fps |-> 25, width |-> 7, height |-> 3],
      [frame_count |-> 0, fps |-> 0, width |-> 0, height |-> 0] }

Damages == {"none", "all", "head", "tail"}

Videos ==
    {[frame_count |-> v.frame_count, fps |-> v.fps, width |-> v.width,
      height |-> v.height, damage |-> d] : v \in Sources, d \in Damages}

NoVideo == [frame_count |-> 0, fps |-> 0, width |-> 0, height |-> 0, damage |-> "all"]

\* ret of cap.read() after cap.set(CAP_PROP_POS_FRAMES, pos)
Readable(v, pos) ==
    CASE v.damage = "none" -> TRUE
      [] v.damage = "all"  -> FALSE
      [] v.damage = "head" -> 2 * pos >= v.frame_count
      [] OTHER             -> 2 * pos < v.frame_count

(***************************************************************************)
(* The layout plan of _calculate_dimensions.                               *)
(***************************************************************************)
padding == 30
spacing == 20
num_info_lines == 5
DefaultMaxWidth == 1920

\* the literal 0.015: the double nearest to 15/1000, 0x1EB851EB851EB8 * 2^-59
InfoFontRatio ==
    [m |-> <<1, 1, 1, 1, 0, 1, 0, 1, 1, 1, 0, 0, 0, 0, 1, 0, 1, 0,
             0, 0, 1, 1, 1, 1, 0, 1, 0, 1, 1, 1, 0, 0, 0, 0, 1, 0,
             1, 0, 0, 0, 1, 1, 1, 1, 0, 1, 0, 1, 1, 1, 0, 0, 0>>,
     e |-> -59]

NoDimensions == [ok |-> FALSE]

\* lines 147-173: the info section, the total height and the returned plan
PlanOfGrid(frame_width, frame_height, grid_width, grid_height, info_font_size) ==
    LET line_spacing      == info_font_size + 5
        info_height       == (line_spacing * num_info_lines) + (padding * 2)
        watermark_padding == padding * 2
        total_height      == grid_height + info_height + (2 * padding) + watermark_padding
    IN  [ok |-> TRUE,
         frame_width |-> frame_width, frame_height |-> frame_height,
         grid_width |-> grid_width, grid_height |-> grid_height,
         info_height |-> info_height, total_height |-> total_height,
         padding |-> padding, spacing |-> spacing,
         info_font_size |-> info_font_size, line_spacing |-> line_spacing,
         watermark_padding |-> watermark_padding]

\* line 148: info_font_size = int(grid_width * 0.015)
PlanOfSizes(frame_width, frame_height, grid_width, grid_height) ==
    PlanOfGrid(frame_width, frame_height, grid_width, grid_height,
               TruncMul(grid_width, InfoFontRatio))

\* faulty variant of PlanOfFrame: the side padding is left out of grid_width
PlanOfFrameNoPadding(r, c, frame_width, frame_height) ==
    PlanOfSizes(frame_width, frame_height,
                (frame_width * c) + (spacing * (c - 1)),
                (frame_height * r) + (spacing * (r - 1)))

\* lines 137-145: grid_width and grid_height
PlanOfFrame(r, c, frame_width, frame_height) ==
    PlanOfSizes(frame_width, frame_height,
                (frame_width * c) + (spacing * (c - 1)) + (2 * padding),
                (frame_height * r) + (spacing * (r - 1)))

\* line 135: frame_height = int(frame_width / aspect_ratio)
PlanOfWidth(r, c, frame_width, aspect_ratio) ==
    PlanOfFrame(r, c, frame_width, TruncDiv(frame_width, aspect_ratio))

\* faulty variant of CalculateDimensions: the spacing between the columns is not
\* taken off the available width
CalculateDimensionsNoSpacing(r, c, width, height, maxw) ==
    IF c = 0 \/ height = 0 \/ width = 0 THEN NoDimensions
    ELSE PlanOfWidth(r, c, PyFloorDiv(maxw - (2 * padding), c), FDivNat(width, height))

\* lines 129-134: available_width, frame_width and aspect_ratio; there is no plan
\* when a division raises ZeroDivisionError: // by 0 columns, width / 0 and
\* frame_width / 0.0
CalculateDimensions(r, c, width, height, maxw) ==
    IF c = 0 \/ height = 0 \/ width = 0 THEN NoDimensions
    ELSE PlanOfWidth(r, c,
                     PyFloorDiv(maxw - (2 * padding) - (spacing * (c - 1)), c),
                     FDivNat(width, height))

(***************************************************************************)
(* The timestamp label of _process_frame_with_timestamp.                   *)
(***************************************************************************)
\* duration = frame_count / fps if fps > 0 else 0
Duration(frame_count, fps) ==
    IF fps > 0 THEN FDivNat(frame_count, fps) ELSE FZero

\* frame_interval = total_duration / (self.total_frames + 1)
FrameInterval(duration, total_frames) ==
    FDivByNat(duration, total_frames + 1)

\* timestamp = (idx + 1) * frame_interval
Timestamp(idx, frame_interval) ==
    FMulNat(idx + 1, frame_interval)

TimestampText(timestamp) ==
    LET hours   == FFloorDiv(timestamp, 3600)
        minutes == FFloorDiv(FMod(timestamp, 3600), 60)
        seconds == IntF(FMod(timestamp, 60))
    IN  Pad2(hours) \o <<":">> \o Pad2(minutes) \o <<":">> \o Pad2(seconds)

(***************************************************************************)
(* The info text of generate_info_text (utils.py): the duration and the    *)
(* file size lines.                                                        *)
(***************************************************************************)
\* " ".join(parts)
RECURSIVE JoinSpace(_)
JoinSpace(parts) ==
    IF parts = <<>> THEN <<>>
    ELSE IF Len(parts) = 1 THEN parts[1]
    ELSE parts[1] \o <<" ">> \o JoinSpace(Tail(parts))

\* lines 52-58: the parts of the units that are kept
DurationParts(hours, minutes, seconds) ==
    (IF hours > 0 THEN <<Numeral(hours) \o <<"h">>>> ELSE <<>>)
        \o (IF minutes > 0 THEN <<Numeral(minutes) \o <<"m">>>> ELSE <<>>)
        \o (IF seconds > 0 \/ (hours <= 0 /\ minutes <= 0)
            THEN <<Numeral(seconds) \o <<"s">>>> ELSE <<>>)

\* format_duration(seconds) for a double seconds >= 0
FormatDuration(seconds) ==
    JoinSpace(DurationParts(FFloorDiv(seconds, 3600),
                            FFloorDiv(FMod(seconds, 3600), 60),
                            IntF(FMod(seconds, 60))))

SizeUnits ==
    <<<<"B">>, <<"K", "B">>, <<"M", "B">>, <<"G", "B">>, <<"T", "B">>>>

\* x < 1024.0 for a double x >= 0 whose significand has no leading zero
Below1024(x) ==
    x.m = <<>> \/ Len(x.m) + x.e <= 10

\* x / 1024.0: exact, the exponent goes down by 10
Div1024(x) ==
    IF x.m = <<>> THEN x ELSE [m |-> x.m, e |-> x.e - 10]

\* the quotient q of a division by 2^n (n >= 1) and its remainder bits lo,
\* rounded to the nearest integer, ties to even
RoundHalfEven(q, lo) ==
    IF lo[1] = 1 /\ ((\E j \in 2..Len(lo) : lo[j] = 1) \/ q % 2 = 1)
    THEN q + 1 ELSE q

\* the bit sequence t, of weight 2^e, rounded to the nearest integer
RoundBitsToInt(t, e) ==
    IF e >= 0 THEN Val(t \o Zeros(e))
    ELSE IF Len(t) <= 0 - e
         THEN RoundHalfEven(0, Zeros((0 - e) - Len(t)) \o t)
         ELSE RoundHalfEven(Val(SubSeq(t, 1, Len(t) + e)),
                            SubSeq(t, Len(t) + e + 1, Len(t)))

\* the text of a number of tenths: f"{x:.1f}" where tenths = round(10 * x)
TenthsText(tenths) ==
    Numeral(tenths \div 10) \o <<".">> \o Numeral(tenths % 10)

\* f"{x:.1f}" for a double x >= 0: the decimal nearest to the exact value
OneDecimal(x) ==
    TenthsText(RoundBitsToInt(MulSmall(x.m, 10), x.e))

\* what format_file_size returns: the number printed, its unit, the text
SizeText(x, unit) ==
    [value |-> x, unit |-> unit, text |-> OneDecimal(x) \o <<" ">> \o unit]

\* lines 39-43: the loop from the k-th unit on, and the return after the loop
RECURSIVE FormatFileSizeFrom(_, _)
FormatFileSizeFrom(x, k) ==
    IF k > Len(SizeUnits) THEN SizeText(x, <<"T", "B">>)
    ELSE IF Below1024(x) THEN SizeText(x, SizeUnits[k])
    ELSE FormatFileSizeFrom(Div1024(x), k + 1)

\* format_file_size(size_bytes) for a whole number of bytes, given as a double
FormatFileSize(size_bytes) ==
    FormatFileSizeFrom(size_bytes, 1)

\* the lines of generate_info_text that are computed: duration and file size
InfoText(info) ==
    [duration |-> FormatDuration(info.duration),
     file_size |-> FormatFileSize(info.file_size)]

\* a whole number c * 1024^j of bytes, as a double
Bytes(c, j) ==
    IF c = 0 THEN FZero ELSE [m |-> Bits(c), e |-> 10 * j]

(***************************************************************************)
(* State.                                                                  *)
(***************************************************************************)
VARIABLES
    pc,             \* the statement main / generate_thumbnail is at
    grid,           \* args.grid
    input_exists,   \* os.path.exists(input_path)
    video,          \* the file at input_path, as the decoder sees it
    max_width,      \* the max_width argument of generate_thumbnail
    grid_size,      \* Thumbr.grid_size: <<rows, cols>>, <<>> before construction
    total_frames,   \* Thumbr.total_frames
    cap,            \* the decoder handles of get_video_info and capture_frames
    video_info,     \* the metadata get_video_info returned
    frames,         \* capture_frames: the source index of each frame kept
    interval,       \* capture_frames: interval
    i,              \* capture_frames: the loop counter
    dimensions,     \* the plan
    info_section,   \* the size of the rendered info section
    final_image,    \* the canvas: its size and what was pasted on it, in order
    frame_interval, \* generate_thumbnail: frame_interval
    idx,            \* generate_thumbnail: the tile loop counter
    tile,           \* the tile _process_frame_with_timestamp returned
    output,         \* the images written to output_path, in order
    error,          \* the error the run ended with, "none" otherwise
    log             \* the externally visible steps taken so far

vars == <<pc, grid, input_exists, video, max_width, grid_size, total_frames, cap,
          video_info, frames, interval, i, dimensions, info_section, final_image,
          frame_interval, idx, tile, output, error, log>>

NoInfo == [ok |-> FALSE]
NoImage == [ok |-> FALSE]

Event(name, arg) == [ev |-> name, arg |-> arg]

rows == grid_size[1]
cols == grid_size[2]

Init ==
    /\ pc = "main"
    /\ grid \in GridTexts
    /\ input_exists \in BOOLEAN
    /\ video \in IF input_exists THEN Videos ELSE {NoVideo}
    /\ max_width = DefaultMaxWidth
    /\ grid_size = <<>>
    /\ total_frames = 0
    /\ cap = [info |-> "none", frames |-> "none"]
    /\ video_info = NoInfo
    /\ frames = <<>>
    /\ interval = 0
    /\ i = 0
    /\ dimensions = NoDimensions
    /\ info_section = NoImage
    /\ final_image = NoImage
    /\ frame_interval = FZero
    /\ idx = 0
    /\ tile = NoImage
    /\ output = <<>>
    /\ error = "none"
    /\ log = <<>>

\* an exception leaves generate_thumbnail (or main returns early): main prints
\* the message and ends
Raise(kind) ==
    /\ pc' = "done"
    /\ error' = kind

(***************************************************************************)
(* main                                                                    *)
(***************************************************************************)
MainCheckInput ==
    /\ pc = "main"
    /\ IF input_exists
       THEN pc' = "parse_grid" /\ error' = error
       ELSE Raise("InputNotFound")
    /\ UNCHANGED <<grid, input_exists, video, max_width, grid_size, total_frames, cap,
                   video_info, frames, interval, i, dimensions, info_section,
                   final_image, frame_interval, idx, tile, output, log>>

\* lines 30-36: a ValueError of the parse is reported and main returns, else the
\* Thumbr is constructed (Thumbr.__init__, lines 23-24)
MainParsed(g) ==
    IF g.ok
    THEN /\ pc' = "gvi_open"
         /\ error' = error
         /\ grid_size' = <<g.rows, g.cols>>
         /\ total_frames' = g.rows * g.cols
         /\ log' = Append(log, Event("construct", g.rows * g.cols))
    ELSE /\ Raise("InvalidGrid")
         /\ UNCHANGED <<grid_size, total_frames, log>>

MainParseGrid ==
    /\ pc = "parse_grid"
    /\ MainParsed(ParseGrid(grid))
    /\ UNCHANGED <<grid, input_exists, video, max_width, cap, video_info, frames,
                   interval, i, dimensions, info_section, final_image,
                   frame_interval, idx, tile, output>>

(***************************************************************************)
(* get_video_info                                                          *)
(***************************************************************************)
GetVideoInfoOpen ==
    /\ pc = "gvi_open"
    /\ log' = Append(log, Event("open", 1))
    /\ \E opened \in BOOLEAN :
          IF opened
          THEN /\ cap' = [cap EXCEPT !.info = "open"]
               /\ pc' = "gvi_read"
               /\ error' = error
          ELSE /\ cap' = [cap EXCEPT !.info = "failed"]
               /\ Raise("SourceOpen")
    /\ UNCHANGED <<grid, input_exists, video, max_width, grid_size, total_frames,
                   video_info, frames, interval, i, dimensions, info_section,
                   final_image, frame_interval, idx, tile, output>>

\* what os.path.getsize may return for the file: 1536 bytes, 5 MB
FileSizes ==
    {Bytes(1536, 0), Bytes(5, 2)}

GetVideoInfoRead ==
    /\ pc = "gvi_read"
    /\ \E size_ok \in BOOLEAN, file_size \in FileSizes :
          IF size_ok
          THEN /\ video_info' = [ok |-> TRUE,
                                 width |-> video.width, height |-> video.height,
                                 fps |-> video.fps, frame_count |-> video.frame_count,
                                 duration |-> Duration(video.frame_count, video.fps),
                                 file_size |-> file_size]
               /\ cap' = [cap EXCEPT !.info = "released"]
               /\ pc' = "capture_open"
               /\ error' = error
          ELSE \* os.path.getsize raises: cap.release() is not reached
               /\ Raise("FileSize")
               /\ UNCHANGED <<video_info, cap>>
    /\ UNCHANGED <<grid, input_exists, video, max_width, grid_size, total_frames,
                   frames, interval, i, dimensions, info_section, final_image,
                   frame_interval, idx, tile, output, log>>

(***************************************************************************)
(* capture_frames                                                          *)
(***************************************************************************)
\* faulty variant of IntervalOf: the quotient is rounded up
IntervalOfRoundedUp(frame_count, n) ==
    PyFloorDiv(frame_count + n, n + 1)

\* interval = total_frames // (self.total_frames + 1), the divisor not 0
IntervalOf(frame_count, n) ==
    PyFloorDiv(frame_count, n + 1)

\* faulty variant of FramePos: the probes start at the first frame
FramePosFromZero(k, step) ==
    k * step

\* frame_pos = (i + 1) * interval
FramePos(k, step) ==
    (k + 1) * step

\* faulty variant of CaptureOpen: isOpened() is not looked at
CaptureOpenUnchecked ==
    /\ pc = "capture_open"
    /\ log' = Append(log, Event("open", 2))
    /\ total_frames + 1 # 0
    /\ \E opened \in BOOLEAN :
          cap' = [cap EXCEPT !.frames = IF opened THEN "open" ELSE "failed"]
    /\ frames' = <<>>
    /\ interval' = IntervalOf(video.frame_count, total_frames)
    /\ i' = 0
    /\ pc' = "capture_loop"
    /\ UNCHANGED <<grid, input_exists, video, max_width, grid_size, total_frames,
                   video_info, dimensions, info_section, final_image, frame_interval,
                   idx, tile, output, error>>

CaptureOpen ==
    /\ pc = "capture_open"
    /\ log' = Append(log, Event("open", 2))
    /\ \E opened \in BOOLEAN :
          IF ~opened
          THEN /\ cap' = [cap EXCEPT !.frames = "failed"]
               /\ Raise("SourceOpen")
               /\ UNCHANGED <<frames, interval, i>>
          ELSE /\ cap' = [cap EXCEPT !.frames = "open"]
               /\ IF total_frames + 1 = 0
                  THEN \* total_frames // 0
                       /\ Raise("ZeroDivision")
                       /\ UNCHANGED <<frames, interval, i>>
                  ELSE /\ frames' = <<>>
                       /\ interval' = IntervalOf(video.frame_count, total_frames)
                       /\ i' = 0
                       /\ pc' = "capture_loop"
                       /\ error' = error
    /\ UNCHANGED <<grid, input_exists, video, max_width, grid_size, total_frames,
                   video_info, dimensions, info_section, final_image, frame_interval,
                   idx, tile, output>>

CaptureProbe ==
    /\ pc = "capture_loop"
    /\ i < total_frames
    /\ LET frame_pos == FramePos(i, interval)
       IN  /\ log' = Append(log, Event("probe", frame_pos))
           /\ IF Readable(video, frame_pos)
              THEN \E converted \in BOOLEAN :
                      IF converted
                      THEN /\ frames' = Append(frames, frame_pos)
                           /\ i' = i + 1
                           /\ pc' = pc
                           /\ error' = error
                      ELSE \* cv2.cvtColor raises: cap.release() is not reached
                           /\ Raise("Convert")
                           /\ UNCHANGED <<frames, i>>
              ELSE /\ i' = i + 1
                   /\ pc' = pc
                   /\ error' = error
                   /\ frames' = frames
    /\ UNCHANGED <<grid, input_exists, video, max_width, grid_size, total_frames, cap,
                   video_info, interval, dimensions, info_section, final_image,
                   frame_interval, idx, tile, output>>

CaptureRelease ==
    /\ pc = "capture_loop"
    /\ i >= total_frames
    /\ cap' = [cap EXCEPT !.frames = "released"]
    /\ pc' = "check_frames"
    /\ UNCHANGED <<grid, input_exists, video, max_width, grid_size, total_frames,
                   video_info, frames, interval, i, dimensions, info_section,
                   final_image, frame_interval, idx, tile, output, error, log>>


(***************************************************************************)
(* generate_thumbnail, after the sampling                                  *)
(***************************************************************************)
\* Python's a % b on integers, b # 0
PyMod(a, b) ==
    a - b * PyFloorDiv(a, b)

\* Image.new accepts a size without a negative side; Image.resize needs both
\* sides positive.  An accepted call may still raise (fonts, memory).
NewSizeOk(w, h) == w >= 0 /\ h >= 0
ResizeOk(w, h) == w > 0 /\ h > 0

Pasted(what, k, x, y, w, h, label) ==
    [what |-> what, idx |-> k, x |-> x, y |-> y, width |-> w, height |-> h,
     label |-> label]

\* faulty variant of CheckFrames: an empty frame list is let through
CheckFramesSkipped ==
    /\ pc = "check_frames"
    /\ pc' = "calculate"
    /\ UNCHANGED <<grid, input_exists, video, max_width, grid_size, total_frames, cap,
                   video_info, frames, interval, i, dimensions, info_section,
                   final_image, frame_interval, idx, tile, output, error, log>>

CheckFrames ==
    /\ pc = "check_frames"
    /\ IF frames = <<>>
       THEN Raise("NoFrames")
       ELSE pc' = "calculate" /\ error' = error
    /\ UNCHANGED <<grid, input_exists, video, max_width, grid_size, total_frames, cap,
                   video_info, frames, interval, i, dimensions, info_section,
                   final_image, frame_interval, idx, tile, output, log>>

CalculateStep ==
    /\ pc = "calculate"
    /\ log' = Append(log, Event("layout", 0))
    /\ dimensions' = CalculateDimensions(rows, cols, video_info.width,
                                         video_info.height, max_width)
    /\ IF dimensions'.ok
       THEN pc' = "info_section" /\ error' = error
       ELSE Raise("ZeroDivision")
    /\ UNCHANGED <<grid, input_exists, video, max_width, grid_size, total_frames, cap,
                   video_info, frames, interval, i, info_section, final_image,
                   frame_interval, idx, tile, output>>

CreateInfoSection ==
    /\ pc = "info_section"
    /\ log' = Append(log, Event("render_info", 0))
    /\ \E ok \in IF NewSizeOk(dimensions.grid_width, dimensions.info_height)
                 THEN BOOLEAN ELSE {FALSE} :
          IF ok
          THEN /\ info_section' = [ok |-> TRUE,
                                   width |-> dimensions.grid_width,
                                   height |-> dimensions.info_height,
                                   font_size |-> dimensions.info_font_size,
                                   line_spacing |-> dimensions.line_spacing,
                                   text |-> InfoText(video_info)]
               /\ pc' = "new_canvas"
               /\ error' = error
          ELSE info_section' = info_section /\ Raise("Render")
    /\ UNCHANGED <<grid, input_exists, video, max_width, grid_size, total_frames, cap,
                   video_info, frames, interval, i, dimensions, final_image,
                   frame_interval, idx, tile, output>>

NewCanvas ==
    /\ pc = "new_canvas"
    /\ log' = Append(log, Event("canvas", 0))
    /\ \E ok \in IF NewSizeOk(dimensions.grid_width, dimensions.total_height)
                 THEN BOOLEAN ELSE {FALSE} :
          IF ok
          THEN /\ final_image' = [ok |-> TRUE,
                                  width |-> dimensions.grid_width,
                                  height |-> dimensions.total_height,
                                  pasted |-> <<>>]
               /\ pc' = "paste_info"
               /\ error' = error
          ELSE final_image' = final_image /\ Raise("Render")
    /\ UNCHANGED <<grid, input_exists, video, max_width, grid_size, total_frames, cap,
                   video_info, frames, interval, i, dimensions, info_section,
                   frame_interval, idx, tile, output>>

PasteInfo ==
    /\ pc = "paste_info"
    /\ log' = Append(log, Event("paste_info", 0))
    /\ final_image' = [final_image EXCEPT !.pasted =
           Append(@, Pasted("info", 0, 0, 0, info_section.width, info_section.height,
                            <<>>))]
    /\ frame_interval' = FrameInterval(video_info.duration, total_frames)
    /\ idx' = 0
    /\ pc' = "tile_loop"
    /\ UNCHANGED <<grid, input_exists, video, max_width, grid_size, total_frames, cap,
                   video_info, frames, interval, i, dimensions, info_section, tile,
                   output, error>>

ProcessFrame ==
    /\ pc = "tile_loop"
    /\ idx < Len(frames)
    /\ log' = Append(log, Event("render_tile", idx))
    /\ \E ok \in IF ResizeOk(dimensions.frame_width, dimensions.frame_height)
                 THEN BOOLEAN ELSE {FALSE} :
          IF ok
          THEN /\ tile' = [ok |-> TRUE,
                           frame |-> frames[idx + 1],
                           width |-> dimensions.frame_width,
                           height |-> dimensions.frame_height,
                           label |-> TimestampText(Timestamp(idx, frame_interval))]
               /\ pc' = "paste_tile"
               /\ error' = error
          ELSE tile' = tile /\ Raise("Render")
    /\ UNCHANGED <<grid, input_exists, video, max_width, grid_size, total_frames, cap,
                   video_info, frames, interval, i, dimensions, info_section,
                   final_image, frame_interval, idx, output>>

\* row = idx // self.grid_size[1]
TileRow(k, c) ==
    PyFloorDiv(k, c)

\* faulty variant of TileCol: // in the place of %
TileColByDivision(k, c) ==
    PyFloorDiv(k, c)

\* col = idx % self.grid_size[1]
TileCol(k, c) ==
    PyMod(k, c)

\* faulty variant of TileX: the columns follow each other without spacing
TileXNoSpacing(col, plan) ==
    plan.padding + (col * plan.frame_width)

\* x = dimensions["padding"] + col * (frame_width + spacing)
TileX(col, plan) ==
    plan.padding + (col * (plan.frame_width + plan.spacing))

\* y = frames_start_y + row * (frame_height + spacing)
TileY(row, plan) ==
    plan.info_height + (row * (plan.frame_height + plan.spacing))

PasteTile ==
    /\ pc = "paste_tile"
    /\ log' = Append(log, Event("paste_tile", idx))
    /\ LET row == TileRow(idx, cols)
           col == TileCol(idx, cols)
           x   == TileX(col, dimensions)
           y   == TileY(row, dimensions)
       IN  final_image' = [final_image EXCEPT !.pasted =
               Append(@, Pasted("tile", idx, x, y, tile.width, tile.height, tile.label))]
    /\ idx' = idx + 1
    /\ pc' = "tile_loop"
    /\ UNCHANGED <<grid, input_exists, video, max_width, grid_size, total_frames, cap,
                   video_info, frames, interval, i, dimensions, info_section,
                   frame_interval, tile, output, error>>

\* watermark_font_size = int(grid_width * 0.015), from the plan's grid_width
WatermarkFontSize(grid_width) ==
    TruncMul(grid_width, InfoFontRatio)

\* the image _add_watermark returns: the canvas under an overlay of w x h
Watermarked(image, w, h, font_size) ==
    [ok |-> TRUE, width |-> w, height |-> h,
     pasted |-> Append(image.pasted, Pasted("watermark", 0, 0, 0, w, h, <<>>)),
     watermark_font_size |-> font_size]

\* faulty variant of WatermarkOverlay: the overlay is as wide as max_width, not
\* as the plan's grid_width
WatermarkOverlayFromMaxWidth(image, plan) ==
    Watermarked(image, max_width, plan.total_height, WatermarkFontSize(max_width))

\* lines 286-323: the overlay has the plan's grid_width and total_height
WatermarkOverlay(image, plan) ==
    Watermarked(image, plan.grid_width, plan.total_height,
                WatermarkFontSize(plan.grid_width))

AddWatermark ==
    /\ pc = "tile_loop"
    /\ idx >= Len(frames)
    /\ log' = Append(log, Event("watermark", 0))
    /\ \E ok \in IF NewSizeOk(dimensions.grid_width, dimensions.total_height)
                 THEN BOOLEAN ELSE {FALSE} :
          IF ok
          THEN /\ final_image' = WatermarkOverlay(final_image, dimensions)
               /\ pc' = "save"
               /\ error' = error
          ELSE final_image' = final_image /\ Raise("Render")
    /\ UNCHANGED <<grid, input_exists, video, max_width, grid_size, total_frames, cap,
                   video_info, frames, interval, i, dimensions, info_section,
                   frame_interval, idx, tile, output>>

\* faulty variant of Save: what was encoded before the failure stays on disk
SaveKeepsPartial ==
    /\ pc = "save"
    /\ log' = Append(log, Event("save", 0))
    /\ output' = Append(output, final_image)
    /\ \E ok \in BOOLEAN :
          IF ok THEN pc' = "done" /\ error' = error ELSE Raise("Save")
    /\ UNCHANGED <<grid, input_exists, video, max_width, grid_size, total_frames, cap,
                   video_info, frames, interval, i, dimensions, info_section,
                   final_image, frame_interval, idx, tile>>

\* faulty variant of Save: a failed save is tried again
SaveWithRetry ==
    /\ pc = "save"
    /\ log' = Append(log, Event("save", 0))
    /\ \E ok \in BOOLEAN :
          IF ok
          THEN output' = Append(output, final_image) /\ pc' = "done"
          ELSE output' = output /\ pc' = pc
    /\ UNCHANGED <<grid, input_exists, video, max_width, grid_size, total_frames, cap,
                   video_info, frames, interval, i, dimensions, info_section,
                   final_image, frame_interval, idx, tile, error>>

\* final_image.save(output_path, quality=95): the file is there when save
\* returns and is not there when it raises
Save ==
    /\ pc = "save"
    /\ log' = Append(log, Event("save", 0))
    /\ \E ok \in BOOLEAN :
          IF ok
          THEN output' = Append(output, final_image) /\ pc' = "done" /\ error' = error
          ELSE output' = output /\ Raise("Save")
    /\ UNCHANGED <<grid, input_exists, video, max_width, grid_size, total_frames, cap,
                   video_info, frames, interval, i, dimensions, info_section,
                   final_image, frame_interval, idx, tile>>

Next ==
    \/ MainCheckInput
    \/ MainParseGrid
    \/ GetVideoInfoOpen
    \/ GetVideoInfoRead
    \/ CaptureOpen
    \/ CaptureProbe
    \/ CaptureRelease
    \/ CheckFrames
    \/ CalculateStep
    \/ CreateInfoSection
    \/ NewCanvas
    \/ PasteInfo
    \/ ProcessFrame
    \/ PasteTile
    \/ AddWatermark
    \/ Save

Spec == Init /\ [][Next]_vars

(***************************************************************************)
(* _calculate_dimensions on its own: the grid, the source size and         *)
(* max_width are drawn from small sets and the plan is computed.           *)
(***************************************************************************)
LayoutSizes ==
    {<<1920, 1080>>, <<640, 480>>, <<7, 3>>, <<3, 7>>, <<1, 1>>, <<0, 0>>}

LayoutWidths ==
    {1, 61, 200} \cup ((DefaultMaxWidth - 5)..DefaultMaxWidth)

InitLayout ==
    /\ pc = "calculate"
    /\ grid = <<>>
    /\ input_exists = TRUE
    /\ video = NoVideo
    /\ max_width \in LayoutWidths
    /\ grid_size \in (0..MaxRows) \X (0..MaxCols)
    /\ total_frames = rows * cols
    /\ cap = [info |-> "released", frames |-> "released"]
    /\ \E size \in LayoutSizes :
          video_info = [ok |-> TRUE, width |-> size[1], height |-> size[2],
                        fps |-> 0, frame_count |-> 0, duration |-> FZero]
    /\ frames = <<>>
    /\ interval = 0
    /\ i = 0
    /\ dimensions = NoDimensions
    /\ info_section = NoImage
    /\ final_image = NoImage
    /\ frame_interval = FZero
    /\ idx = 0
    /\ tile = NoImage
    /\ output = <<>>
    /\ error = "none"
    /\ log = <<>>

NextLayout ==
    CalculateStep

SpecLayout == InitLayout /\ [][NextLayout]_vars

(***************************************************************************)
(* Properties of the layout plan (checked under SpecLayout).               *)
(***************************************************************************)
\* C1: whenever _calculate_dimensions returns a plan, grid_width is
\* frame_width*cols + spacing*(cols-1) + 2*padding, grid_height is
\* frame_height*rows + spacing*(rows-1) and total_height is grid_height +
\* info_height + 2*padding + watermark_padding, exactly, with padding 30,
\* spacing 20 and watermark_padding 2*padding.
C1_LayoutIdentities ==
    dimensions.ok =>
        /\ dimensions.padding = 30
        /\ dimensions.spacing = 20
        /\ dimensions.watermark_padding = 2 * dimensions.padding
        /\ dimensions.grid_width =
               (dimensions.frame_width * cols) + (dimensions.spacing * (cols - 1))
                   + (2 * dimensions.padding)
        /\ dimensions.grid_height =
               (dimensions.frame_height * rows) + (dimensions.spacing * (rows - 1))
        /\ dimensions.total_height =
               dimensions.grid_height + dimensions.info_height
                   + (2 * dimensions.padding) + dimensions.watermark_padding

\* a 3x3 plan of a 1920x1080 source at the default width: frames of 606x340
C1_Plan3x3 ==
    /\ dimensions.ok
    /\ grid_size = <<3, 3>>
    /\ max_width = 1920
    /\ video_info.width = 1920 /\ video_info.height = 1080
    /\ dimensions.frame_width = 606 /\ dimensions.frame_height = 340
    /\ dimensions.grid_width = 1918 /\ dimensions.grid_height = 1060

PlanFields ==
    {"frame_width", "frame_height", "grid_width", "grid_height", "info_height",
     "total_height", "padding", "spacing", "info_font_size", "line_spacing",
     "watermark_padding"}

\* C2: for rows >= 1, cols >= 1, max_width >= 1 and a source of width >= 1 and
\* height >= 1, every field of the plan is a positive integer.
C2_AllFieldsPositive ==
    (/\ dimensions.ok
     /\ rows >= 1 /\ cols >= 1 /\ max_width >= 1
     /\ video_info.width >= 1 /\ video_info.height >= 1)
        => \A f \in PlanFields : dimensions[f] \in Nat \ {0}

\* a 1x1 plan of a 1x1 source at max_width 1: the frame is 59 pixels less than
\* nothing wide
C2_NegativeFrame ==
    /\ dimensions.ok
    /\ grid_size = <<1, 1>>
    /\ max_width = 1
    /\ video_info.width = 1 /\ video_info.height = 1
    /\ dimensions.frame_width = 0 - 59
    /\ dimensions.frame_height = 0 - 59
    /\ dimensions.info_font_size = 0

(***************************************************************************)
(* Properties of a run of main (checked under Spec).                       *)
(***************************************************************************)
EventsOf(name) ==
    {j \in 1..Len(log) : log[j].ev = name}

Happened(name) ==
    EventsOf(name) # {}

\* the positions probed so far, in order
ProbedPositions ==
    LET probes == SelectSeq(log, LAMBDA e : e.ev = "probe")
    IN  [k \in 1..Len(probes) |-> probes[k].arg]

\* C3: with rows, cols >= 1, N = rows*cols and a source of at least N + 1
\* frames whose every probe decodes, capture_frames returns exactly N frames,
\* the k-th (k = 1..N) read at source index k * floor(frame_count / (N + 1)),
\* in that order.
C3_SampledIndices ==
    (/\ cap.frames = "released"
     /\ rows >= 1 /\ cols >= 1
     /\ video.frame_count >= (rows * cols) + 1
     /\ \A k \in 1..Len(ProbedPositions) : Readable(video, ProbedPositions[k]))
        => /\ Len(frames) = rows * cols
           /\ \A k \in 1..(rows * cols) :
                 frames[k] = k * (video.frame_count \div ((rows * cols) + 1))
           /\ ProbedPositions = frames

\* 300 frames and a 3x3 grid: the frames at 30, 60, ..., 270
C3_Sampled3x3 ==
    /\ cap.frames = "released"
    /\ grid_size = <<3, 3>>
    /\ video.frame_count = 300
    /\ frames = <<30, 60, 90, 120, 150, 180, 210, 240, 270>>

\* HH:MM:SS of a whole number of seconds
ClockText(t) ==
    Pad2(t \div 3600) \o <<":">> \o Pad2((t % 3600) \div 60) \o <<":">> \o Pad2(t % 60)

\* floor((k + 1) * duration / (N + 1)) for the duration frame_count / fps (0
\* when fps is 0), in exact arithmetic
ClaimedSeconds(k) ==
    IF video.fps > 0
    THEN ((k + 1) * video.frame_count) \div (video.fps * (total_frames + 1))
    ELSE 0

TilesPasted ==
    IF final_image.ok
    THEN SelectSeq(final_image.pasted, LAMBDA p : p.what = "tile")
    ELSE <<>>

\* C4: the label on the k-th tile (0-indexed) placed on the canvas is
\* floor((k + 1) * duration / (N + 1)) seconds, N = rows*cols, written
\* HH:MM:SS by truncation with two digits each.
C4_LabelIsFloorOfExact ==
    \A j \in 1..Len(TilesPasted) :
        TilesPasted[j].label = ClockText(ClaimedSeconds(TilesPasted[j].idx))

\* 183 s and a 4x5 grid: tile 6 is labelled 00:01:00, where 7 * 183 / 21 = 61
C4_LabelOneSecondShort ==
    /\ grid_size = <<4, 5>>
    /\ video.frame_count = 183 /\ video.fps = 1
    /\ Len(TilesPasted) >= 7
    /\ TilesPasted[7].idx = 6
    /\ TilesPasted[7].label = <<"0", "0", ":", "0", "1", ":", "0", "0">>
    /\ ClaimedSeconds(6) = 61

\* the canvas holds the info section, then the tiles 0, 1, ... of every frame
\* kept, then the watermark
CanvasComplete ==
    /\ final_image.ok
    /\ Len(final_image.pasted) = Len(frames) + 2
    /\ final_image.pasted[1].what = "info"
    /\ \A k \in 1..Len(frames) :
          /\ final_image.pasted[k + 1].what = "tile"
          /\ final_image.pasted[k + 1].idx = k - 1
    /\ final_image.pasted[Len(frames) + 2].what = "watermark"

C6_HandlesReleased ==
    /\ (cap.info = "open" => pc = "gvi_read")
    /\ (cap.frames = "open" => pc = "capture_loop")

\* --grid=-1x1: capture_frames opens the file, divides by total_frames + 1 = 0
\* and leaves with its handle open
C6_HandleLeftOpen ==
    /\ pc = "done"
    /\ error = "ZeroDivision"
    /\ grid_size = <<0 - 1, 1>>
    /\ cap.frames = "open"

\* the positions capture_frames probes for N = total_frames >= 1
PositionsToProbe ==
    [k \in 1..total_frames |-> k * (video.frame_count \div (total_frames + 1))]

\* C7: when the decode fails at every one of the N probed positions, the run
\* ends with the no-frames error and in no other way, the error comes after
\* all N probes, no layout is computed, nothing is written, and the handle of
\* capture_frames is released when the error is raised.
C7_NoFramesError ==
    (/\ total_frames >= 1
     /\ cap.frames \in {"open", "released"}
     /\ \A k \in 1..total_frames : ~Readable(video, PositionsToProbe[k]))
        => /\ pc \in {"capture_loop", "check_frames", "done"}
           /\ error \in {"none", "NoFrames"}
           /\ (pc = "done" <=> error = "NoFrames")
           /\ (pc = "done" =>
                  /\ ProbedPositions = PositionsToProbe
                  /\ cap.frames = "released")
           /\ frames = <<>>
           /\ ~Happened("layout") /\ ~dimensions.ok
           /\ output = <<>>

\* a 3x3 grid on a file of which nothing decodes: nine probes, then the error
C7_NineProbesFailed ==
    /\ pc = "done"
    /\ error = "NoFrames"
    /\ grid_size = <<3, 3>>
    /\ video.damage = "all"
    /\ video.frame_count = 300
    /\ ProbedPositions = <<30, 60, 90, 120, 150, 180, 210, 240, 270>>
    /\ cap.frames = "released"

\* C8: when the decoder cannot open the source (in get_video_info or in
\* capture_frames), the run ends at once with the source-open error: the
\* failed open is the last step taken and was made once, no position is
\* probed, no layout computed and nothing written.
C8_OpenFailureIsFatal ==
    (cap.info = "failed" \/ cap.frames = "failed")
        => /\ pc = "done"
           /\ error = "SourceOpen"
           /\ log[Len(log)].ev = "open"
           /\ Cardinality(EventsOf("open")) = (IF cap.info = "failed" THEN 1 ELSE 2)
           /\ \A a, b \in EventsOf("open") : log[a].arg = log[b].arg => a = b
           /\ ~Happened("probe") /\ frames = <<>>
           /\ ~Happened("layout") /\ ~dimensions.ok
           /\ output = <<>>

\* the metadata were read, then capture_frames could not open the file
C8_SecondOpenFailed ==
    /\ cap.info = "released"
    /\ cap.frames = "failed"
    /\ video_info.ok
    /\ error = "SourceOpen"

\* an integer as int() reads it: spaces around, an optional sign, digits with
\* single underscores between them
IsIntegerText(s) ==
    \E a \in 1..Len(s), b \in 1..Len(s) :
        /\ a <= b
        /\ \A j \in 1..(a - 1) : s[j] = " "
        /\ \A j \in (b + 1)..Len(s) : s[j] = " "
        /\ LET f == IF s[a] \in {"+", "-"} THEN a + 1 ELSE a
           IN  /\ f <= b
               /\ \A j \in f..b :
                     \/ IsDigit(s[j])
                     \/ /\ s[j] = "_"
                        /\ f < j /\ j < b
                        /\ IsDigit(s[j - 1]) /\ IsDigit(s[j + 1])

\* two integers separated by a single "x"
WellFormedGrid(text) ==
    \E p \in 1..Len(text) :
        /\ text[p] = "x"
        /\ \A q \in 1..Len(text) : text[q] = "x" => q = p
        /\ IsIntegerText(SubSeq(text, 1, p - 1))
        /\ IsIntegerText(SubSeq(text, p + 1, Len(text)))

NoProcessing ==
    /\ grid_size = <<>>
    /\ ~Happened("construct")
    /\ ~Happened("open") /\ cap = [info |-> "none", frames |-> "none"]
    /\ ~Happened("probe") /\ frames = <<>>
    /\ output = <<>>

\* C9 as stated: for every grid text that is not two integers separated by a
\* single "x", main reports the invalid-grid error and returns before
\* any processing: no Thumbr is constructed, no decoder opened, no decode
\* attempted, no output written.
C9_InvalidGridReported ==
    ~WellFormedGrid(grid) =>
        /\ NoProcessing
        /\ pc \in {"main", "parse_grid", "done"}
        /\ (pc = "done" => error = "InvalidGrid")

\* C9, amended: for every grid text that is not two integers separated by a
\* single "x", main returns before any processing (no Thumbr constructed, no
\* decoder opened, no decode attempted, no output written); it reports the
\* invalid-grid error when the input file exists, and the input-not-found
\* error, without looking at the grid, when it does not.
C9_InvalidGridNoProcessing ==
    ~WellFormedGrid(grid) =>
        /\ NoProcessing
        /\ pc \in {"main", "parse_grid", "done"}
        /\ (pc = "done" =>
               error = (IF input_exists THEN "InvalidGrid" ELSE "InputNotFound"))

\* "3x3x3" with an existing input file: the error is reported
C9_ThreePieces ==
    /\ grid = <<"3", "x", "3", "x", "3">>
    /\ input_exists
    /\ pc = "done"
    /\ error = "InvalidGrid"

\* the phase a step belongs to: Sampling 1 (metadata and frames are read from
\* the decoder), Layout 2, Rendering 3 (the info section and the tiles are
\* drawn), Composing 4 (the canvas is created, pieces are pasted on it, the
\* watermark is composited onto it), Encoded 5
PhaseOf(e) ==
    CASE e.ev \in {"open", "probe"}                             -> 1
      [] e.ev = "layout"                                        -> 2
      [] e.ev \in {"render_info", "render_tile"}                -> 3
      [] e.ev \in {"canvas", "paste_info", "paste_tile", "watermark"} -> 4
      [] e.ev = "save"                                          -> 5
      [] OTHER                                                  -> 0

\* the same with Rendering and Composing taken as one phase
StageOf(e) ==
    IF PhaseOf(e) = 5 THEN 4 ELSE IF PhaseOf(e) = 4 THEN 3 ELSE PhaseOf(e)

\* the place of a step among the drawing steps: the info section is rendered,
\* the canvas created, the info section pasted, then each tile is rendered
\* and pasted in turn, then the watermark
DrawingRank(e) ==
    CASE e.ev = "render_info" -> 0
      [] e.ev = "canvas"      -> 1
      [] e.ev = "paste_info"  -> 2
      [] e.ev = "render_tile" -> 3 + (2 * e.arg)
      [] e.ev = "paste_tile"  -> 4 + (2 * e.arg)
      [] OTHER                -> 3 + (2 * Len(frames))

\* no step is taken twice: the probes are the total_frames probes of the
\* loop, every other step is there once
NoRetry ==
    /\ \A a, b \in 1..Len(log) : (log[a] = log[b] /\ log[a].ev # "probe") => a = b
    /\ Cardinality(EventsOf("probe")) <= (IF total_frames > 0 THEN total_frames ELSE 0)

\* the run ended in an error of get_video_info or capture_frames, or with no
\* frame captured
SamplingFailed ==
    /\ pc = "done"
    /\ error # "none"
    /\ (cap.frames # "released" \/ frames = <<>>)

\* C10 as stated: the steps go through Sampling, Layout, Rendering, Composing,
\* Encoded in that order, no step of an earlier phase after a step of a later
\* one (all rendering precedes the first composing step), no step is retried,
\* and a failure in Sampling ends the run before Layout.
C10_RenderingBeforeComposing ==
    /\ \A a, b \in 1..Len(log) : a < b => PhaseOf(log[a]) <= PhaseOf(log[b])
    /\ NoRetry
    /\ (SamplingFailed => ~Happened("layout"))

\* C10, amended: the steps go through Sampling, Layout, drawing, Encoded in
\* that order, none of an earlier phase after one of a later phase; within
\* drawing, rendering and composing alternate: the info section is rendered,
\* the canvas created, the info section pasted, each tile rendered and pasted
\* at once before the next tile is rendered, and the watermark composited
\* last; no step is retried, and a failure in Sampling ends the run before
\* Layout.
C10_PhasesInOrder ==
    /\ \A a, b \in 1..Len(log) : a < b => StageOf(log[a]) <= StageOf(log[b])
    /\ \A a, b \in 1..Len(log) :
          (a < b /\ StageOf(log[a]) = 3 /\ StageOf(log[b]) = 3)
              => DrawingRank(log[a]) < DrawingRank(log[b])
    /\ \A b \in EventsOf("paste_tile") :
          b > 1 /\ log[b - 1] = Event("render_tile", log[b].arg)
    /\ \A b \in EventsOf("paste_info") :
          b > 2 /\ log[b - 2].ev = "render_info" /\ log[b - 1].ev = "canvas"
    /\ NoRetry
    /\ (SamplingFailed => ~Happened("layout"))

\* a finished 1x2 thumbnail: the second tile was rendered after the first was
\* pasted
C10_TileRenderedAfterPaste ==
    /\ pc = "done" /\ error = "none"
    /\ grid_size = <<1, 2>>
    /\ Len(output) = 1
    /\ \E a \in EventsOf("paste_tile"), b \in EventsOf("render_tile") :
          a < b /\ log[a].arg = 0 /\ log[b].arg = 1

WatermarkPasted ==
    IF final_image.ok
    THEN SelectSeq(final_image.pasted, LAMBDA p : p.what = "watermark")
    ELSE <<>>

\* C11: within a run the plan is computed once and every consumer uses its
\* values: the info section, the watermark overlay and the canvas are
\* grid_width wide, the overlay and the canvas total_height high, the info
\* section info_height high, which is also the y of the first row of tiles;
\* the tiles have the plan's frame size and the fonts the plan's font size.
C11_PlanReused ==
    /\ Cardinality(EventsOf("layout")) <= 1
    /\ (dimensions.ok <=> (Happened("layout") /\ error # "ZeroDivision"))
    /\ info_section.ok =>
          /\ info_section.width = dimensions.grid_width
          /\ info_section.height = dimensions.info_height
          /\ info_section.font_size = dimensions.info_font_size
          /\ info_section.line_spacing = dimensions.line_spacing
    /\ final_image.ok =>
          /\ final_image.width = dimensions.grid_width
          /\ final_image.height = dimensions.total_height
    /\ \A j \in 1..Len(TilesPasted) :
          /\ TilesPasted[j].width = dimensions.frame_width
          /\ TilesPasted[j].height = dimensions.frame_height
          /\ TilesPasted[j].idx < cols => TilesPasted[j].y = dimensions.info_height
    /\ \A j \in 1..Len(WatermarkPasted) :
          /\ WatermarkPasted[j].width = dimensions.grid_width
          /\ WatermarkPasted[j].height = dimensions.total_height
          /\ final_image.watermark_font_size = dimensions.info_font_size

\* a finished 3x3 thumbnail: 1918 wide throughout, under a max_width of 1920
C11_AllWidths1918 ==
    /\ Len(output) = 1
    /\ grid_size = <<3, 3>>
    /\ max_width = 1920
    /\ dimensions.grid_width = 1918
    /\ info_section.width = 1918
    /\ output[1].width = 1918
    /\ Len(WatermarkPasted) = 1 /\ WatermarkPasted[1].width = 1918

(***************************************************************************)
(* _create_info_section on its own: the duration and the file size of the  *)
(* metadata are drawn from small sets and the info text is produced.       *)
(***************************************************************************)
MaxHours == 2
MaxUnit == 5

InfoDurations ==
    {(h * 3600) + (m * 60) + sec : h \in 0..MaxHours, m \in {0, 2, 59},
                                   sec \in {0, 1, 3, 5, 45}}

InfoSizes ==
    {Bytes(c, j) : c \in {0, 1, 5, 1023, 1536}, j \in 0..MaxUnit}

InitInfo ==
    /\ pc = "info_section"
    /\ grid = <<"3", "x", "3">>
    /\ input_exists = TRUE
    /\ \E d \in InfoDurations :
          /\ video = [frame_count |-> d, fps |-> 1, width |-> 1920, height |-> 1080,
                      damage |-> "none"]
          /\ \E size \in InfoSizes :
                video_info = [ok |-> TRUE, width |-> 1920, height |-> 1080, fps |-> 1,
                              frame_count |-> d, duration |-> Duration(d, 1),
                              file_size |-> size]
    /\ max_width = DefaultMaxWidth
    /\ grid_size = <<3, 3>>
    /\ total_frames = 9
    /\ cap = [info |-> "released", frames |-> "released"]
    /\ frames = <<0>>
    /\ interval = 0
    /\ i = 0
    /\ dimensions = CalculateDimensions(3, 3, 1920, 1080, DefaultMaxWidth)
    /\ info_section = NoImage
    /\ final_image = NoImage
    /\ frame_interval = FZero
    /\ idx = 0
    /\ tile = NoImage
    /\ output = <<>>
    /\ error = "none"
    /\ log = <<>>

NextInfo ==
    CreateInfoSection

SpecInfo == InitInfo /\ [][NextInfo]_vars

(***************************************************************************)
(* Properties of the info text (checked under SpecInfo).                   *)
(***************************************************************************)
\* the units from the first non-zero one through seconds, "0s" when all are 0
LeadingZerosDropped(h, m, sec) ==
    IF h > 0
    THEN Numeral(h) \o <<"h", " ">> \o Numeral(m) \o <<"m", " ">> \o Numeral(sec) \o <<"s">>
    ELSE IF m > 0
    THEN Numeral(m) \o <<"m", " ">> \o Numeral(sec) \o <<"s">>
    ELSE Numeral(sec) \o <<"s">>

\* C12: for a duration of d >= 0 whole seconds, format_duration prints every
\* unit of (d div 3600, (d mod 3600) div 60, d mod 60) from the first non-zero
\* one through seconds, a zero unit after a non-zero one included (3605 gives
\* "1h 0m 5s"), and "0s" when all three are zero.
C12_OnlyLeadingZerosDropped ==
    (info_section.ok /\ video_info.fps = 1)
        => info_section.text.duration =
               LeadingZerosDropped(video_info.frame_count \div 3600,
                                   (video_info.frame_count % 3600) \div 60,
                                   video_info.frame_count % 60)

\* 3605 seconds are printed "1h 5s": the zero minutes are dropped
C12_ZeroMinutesDropped ==
    /\ info_section.ok
    /\ video_info.fps = 1 /\ video_info.frame_count = 3605
    /\ info_section.text.duration = <<"1", "h", " ", "5", "s">>

\* the index k (0 for B .. 4 for TB) of the unit of a size x: the smallest
\* with x < 1024^(k + 1), and 4 for every larger size
ClaimedUnit(x) ==
    IF x.m = <<>> THEN 0
    ELSE IF \E k \in 0..4 : Len(x.m) + x.e <= 10 * (k + 1)
    THEN CHOOSE k \in 0..4 :
             /\ Len(x.m) + x.e <= 10 * (k + 1)
             /\ \A k2 \in 0..(k - 1) : Len(x.m) + x.e > 10 * (k2 + 1)
    ELSE 4

\* C13: for a size of n >= 0 bytes, format_file_size prints n / 1024^k with
\* the k-th unit of (B, KB, MB, GB, TB), k the smallest index with
\* n < 1024^(k + 1) and 4 (TB) from 1024^5 on: the number printed (before it
\* is rounded to one decimal) times 1024^k is n.
C13_ValueTimesUnitIsSize ==
    info_section.ok =>
        /\ info_section.text.file_size.unit
               = SizeUnits[ClaimedUnit(video_info.file_size) + 1]
        /\ info_section.text.file_size.value.m = video_info.file_size.m
        /\ (video_info.file_size.m # <<>> =>
               info_section.text.file_size.value.e
                   + (10 * ClaimedUnit(video_info.file_size))
                       = video_info.file_size.e)

\* 1024^5 bytes are 1024 TB and are printed "1.0 TB"
C13_PetabyteAsTerabyte ==
    /\ info_section.ok
    /\ video_info.file_size = Bytes(1, 5)
    /\ info_section.text.file_size.text = <<"1", ".", "0", " ", "T", "B">>

(***************************************************************************)
(* Further properties of the layout plan (checked under SpecLayout).       *)
(***************************************************************************)
\* C14: for cols >= 1 and every max_width, grid_width does not exceed
\* max_width and falls short of it by less than cols pixels.
C14_WidthWithinMax ==
    (dimensions.ok /\ cols >= 1)
        => /\ dimensions.grid_width <= max_width
           /\ max_width - cols < dimensions.grid_width

\* five columns at max_width 1: the available width is -139, the frames are
\* -28 wide and the canvas 0, which is within 5 of max_width
C14_NarrowCanvas ==
    /\ dimensions.ok
    /\ cols = 5
    /\ max_width = 1
    /\ dimensions.frame_width = 0 - 28
    /\ dimensions.grid_width = 0

(***************************************************************************)
(* Further properties of a run of main (checked under Spec).               *)
(***************************************************************************)
\* C15: the tiles are pasted in the order 0, 1, 2, ..., after the info
\* section and before the watermark, tile k at x = padding + (k mod cols) *
\* (frame_width + spacing), y = info_height + (k div cols) * (frame_height +
\* spacing): the grid is filled row by row.
C15_RowMajorPaste ==
    final_image.ok =>
        \A j \in 1..Len(final_image.pasted) :
            LET p == final_image.pasted[j]
            IN  /\ (p.what = "info" <=> j = 1)
                /\ (p.what = "watermark" =>
                       j = Len(final_image.pasted) /\ j = Len(frames) + 2)
                /\ (p.what = "tile" =>
                       /\ p.idx = j - 2
                       /\ cols >= 1
                       /\ p.x = dimensions.padding
                                  + ((p.idx % cols)
                                       * (dimensions.frame_width + dimensions.spacing))
                       /\ p.y = dimensions.info_height
                                  + ((p.idx \div cols)
                                       * (dimensions.frame_height + dimensions.spacing)))

\* a finished 2x2 thumbnail of a 1920x1080 source: tiles of 920x517 at
\* (30, 225), (970, 225), (30, 762), (970, 762)
C15_FourTilesPlaced ==
    /\ Len(output) = 1
    /\ grid_size = <<2, 2>>
    /\ video_info.width = 1920
    /\ Len(TilesPasted) = 4
    /\ [j \in 1..4 |-> <<TilesPasted[j].idx, TilesPasted[j].x, TilesPasted[j].y>>]
           = <<<<0, 30, 225>>, <<1, 970, 225>>, <<2, 30, 762>>, <<3, 970, 762>>>>

\* the number (1-based) of the probe that read the k-th frame kept (k from 0),
\* for probes at distinct positions
ProbeOfFrame(k) ==
    frames[k + 1] \div interval

\* C16: when probes fail and their tiles are skipped, the frame decoded at
\* probe p (1-based) is still labelled with the time p * duration / (N + 1)
\* of its own probe, however many earlier probes failed.
C16_LabelOfOwnProbe ==
    interval > 0 =>
        \A j \in 1..Len(TilesPasted) :
            TilesPasted[j].label =
                TimestampText(Timestamp(ProbeOfFrame(TilesPasted[j].idx) - 1,
                                        frame_interval))

\* 300 frames at 30 fps, 2x2, the first half not decodable: the frame of
\* probe 3 (source index 180, at 6 s) is the first tile and is labelled 2 s
C16_ThirdProbeLabelledAsFirst ==
    /\ grid_size = <<2, 2>>
    /\ video.frame_count = 300 /\ video.damage = "head"
    /\ frames = <<180, 240>>
    /\ Len(TilesPasted) >= 1
    /\ TilesPasted[1].idx = 0
    /\ ProbeOfFrame(0) = 3
    /\ TilesPasted[1].label = <<"0", "0", ":", "0", "0", ":", "0", "2">>

\* C17: for a grid with rows < 1 or cols < 1 ("0x3", "-2x2") no decoder is
\* opened and no output is written: the grid is rejected before any decode
\* work, so every grid that reaches capture_frames has rows >= 1 and
\* cols >= 1.
C17_SmallGridRejected ==
    /\ (ParseGrid(grid).ok /\ (ParseGrid(grid).rows < 1 \/ ParseGrid(grid).cols < 1))
           => (~Happened("open") /\ ~Happened("probe") /\ output = <<>>)
    /\ (cap.frames # "none" => (rows >= 1 /\ cols >= 1))

\* --grid 0x3: both decoders were opened and capture_frames ran with N = 0
C17_ZeroRowsSampled ==
    /\ grid = <<"0", "x", "3">>
    /\ grid_size = <<0, 3>>
    /\ Cardinality(EventsOf("open")) = 2
    /\ cap.frames = "released"
    /\ error = "NoFrames"

\* two tiles are apart by at least the spacing along x or along y
Apart(a, b) ==
    \/ a.x + a.width + dimensions.spacing <= b.x
    \/ b.x + b.width + dimensions.spacing <= a.x
    \/ a.y + a.height + dimensions.spacing <= b.y
    \/ b.y + b.height + dimensions.spacing <= a.y

\* C18: with frame_width >= 1 and frame_height >= 1, whatever the number of
\* tiles, any two tiles are apart by at least the spacing in the axis where
\* they differ, and every tile lies within x in [padding, grid_width -
\* padding] and y in [info_height, info_height + grid_height]: inside the
\* canvas, not over the info section and not in the bottom band of height
\* 2*padding + watermark_padding.
C18_TilesDisjointInGrid ==
    (dimensions.ok /\ dimensions.frame_width >= 1 /\ dimensions.frame_height >= 1)
        => /\ Len(TilesPasted) <= rows * cols
           /\ \A a, b \in 1..Len(TilesPasted) :
                 a # b => Apart(TilesPasted[a], TilesPasted[b])
           /\ \A a \in 1..Len(TilesPasted) :
                 LET t == TilesPasted[a]
                 IN  /\ t.width = dimensions.frame_width
                     /\ t.height = dimensions.frame_height
                     /\ dimensions.padding <= t.x
                     /\ t.x + t.width <= dimensions.grid_width - dimensions.padding
                     /\ dimensions.info_height <= t.y
                     /\ t.y + t.height <= dimensions.info_height + dimensions.grid_height
                     /\ t.x + t.width <= final_image.width
                     /\ t.y + t.height
                            <= final_image.height
                                   - ((2 * dimensions.padding) + dimensions.watermark_padding)

\* a full 4x5 grid: twenty tiles, the last one ending at the right and bottom
\* edges of the grid
C18_FullGrid ==
    /\ grid_size = <<4, 5>>
    /\ Len(TilesPasted) = 20
    /\ TilesPasted[20].x + TilesPasted[20].width
           = dimensions.grid_width - dimensions.padding
    /\ TilesPasted[20].y + TilesPasted[20].height
           = dimensions.info_height + dimensions.grid_height

\* C19: for N = rows*cols >= 1 and a source of F >= 0 frames, the positions
\* capture_frames probes are strictly increasing (so pairwise distinct) and
\* all within [1, F - 1] exactly when F >= N + 1; when F < N + 1 the interval
\* is 0, all N probes seek index 0 and every frame returned was read there.
C19_ProbePositions ==
    (total_frames >= 1 /\ cap.frames = "released")
        => /\ Len(ProbedPositions) = total_frames
           /\ (video.frame_count >= total_frames + 1
                   <=> /\ \A a, b \in 1..total_frames :
                              a < b => ProbedPositions[a] < ProbedPositions[b]
                       /\ \A a \in 1..total_frames :
                              /\ 1 <= ProbedPositions[a]
                              /\ ProbedPositions[a] <= video.frame_count - 1)
           /\ (video.frame_count < total_frames + 1
                   => /\ interval = 0
                      /\ \A a \in 1..total_frames : ProbedPositions[a] = 0
                      /\ \A k \in 1..Len(frames) : frames[k] = 0)

\* 7 frames and a 3x3 grid: nine probes of index 0, nine frames read there
C19_AllProbesAtZero ==
    /\ cap.frames = "released"
    /\ grid_size = <<3, 3>>
    /\ video.frame_count = 7
    /\ ProbedPositions = <<0, 0, 0, 0, 0, 0, 0, 0, 0>>
    /\ frames = <<0, 0, 0, 0, 0, 0, 0, 0, 0>>
====
